---- MODULE Spec2Model ----
\* Model of functions/src/index.ts: the two HTTP handlers generateCodingChallenge
\* and generateCodingChallengeV2, parseMultipart and initializeGitRepo.
\*
\* Text is a sequence of one-character strings (a longer string stands for a
\* fragment that no operation of the program looks inside).  A Buffer is a
\* sequence of bytes (numbers).
EXTENDS Integers, Sequences, FiniteSets, TLC

\* ---------------------------------------------------------------- bounds
MaxChunks == 1      \* data events delivered for one file part

\* ------------------------------------------------------- JavaScript values
\* (sequences, so that they compare with text)
Undefined == <<"<undefined>">>
Absent == <<"<absent>">>

\* a value that is a Buffer, a string or undefined
BufferOf(bytes) == [type |-> "buffer", val |-> bytes]
StringOf(text) == [type |-> "string", val |-> text]
UndefinedValue == [type |-> "undefined", val |-> <<>>]

Upper == <<"A","B","C","D","E","F","G","H","I","J","K","L","M",
           "N","O","P","Q","R","S","T","U","V","W","X","Y","Z">>
Lower == <<"a","b","c","d","e","f","g","h","i","j","k","l","m",
           "n","o","p","q","r","s","t","u","v","w","x","y","z">>

IsWhitespace(c) == c \in {" ", "\t", "\n"}

ToLowerChar(c) ==
  IF \E i \in 1..Len(Upper) : Upper[i] = c
  THEN Lower[CHOOSE i \in 1..Len(Upper) : Upper[i] = c]
  ELSE c

\* String.prototype.toLowerCase
ToLowerCase(s) == [i \in 1..Len(s) |-> ToLowerChar(s[i])]

RECURSIVE TrimStart(_)
TrimStart(s) ==
  IF s # <<>> /\ IsWhitespace(Head(s)) THEN TrimStart(Tail(s)) ELSE s

RECURSIVE TrimEnd(_)
TrimEnd(s) ==
  IF s # <<>> /\ IsWhitespace(s[Len(s)])
  THEN TrimEnd(SubSeq(s, 1, Len(s) - 1))
  ELSE s

\* String.prototype.trim
Trim(s) == TrimEnd(TrimStart(s))

\* String.prototype.includes
Includes(s, sub) ==
  \E i \in 1..(Len(s) - Len(sub) + 1) : SubSeq(s, i, i + Len(sub) - 1) = sub

\* s.replace(/\s+/g, ' ')
RECURSIVE CollapseWhitespace(_)
CollapseWhitespace(s) ==
  IF s = <<>> THEN <<>>
  ELSE IF IsWhitespace(Head(s))
       THEN <<" ">> \o CollapseWhitespace(TrimStart(s))
       ELSE <<Head(s)>> \o CollapseWhitespace(Tail(s))

\* s.split(' ').join('-')
SplitJoin(s) == [i \in 1..Len(s) |-> IF s[i] = " " THEN "-" ELSE s[i]]

DigitChars == <<"0","1","2","3","4","5","6","7","8","9">>

\* Number to decimal string, as a template literal renders it
RECURSIVE Digits(_)
Digits(n) ==
  IF n < 10 THEN <<DigitChars[n + 1]>>
  ELSE Digits(n \div 10) \o Digits(n % 10)

\* `${v}` for a string or undefined
Interpolate(v) == IF v = Undefined THEN <<"undefined">> ELSE v

\* Buffer.prototype.toString("utf-8"): ASCII bytes decode to their character,
\* a byte that starts no valid sequence decodes to U+FFFD.
\* the characters of the bytes 32..126 (the grave accent is written U+0060)
Ascii ==
  <<" ","!","\"","#","$","%","&","'","(",")","*","+",",","-",".","/","0","1","2","3",
    "4","5","6","7","8","9",":",";","<","=",">","?","@","A","B","C","D","E","F","G","H",
    "I","J","K","L","M","N","O","P","Q","R","S","T","U","V","W","X","Y","Z","[","\\",
    "]","^","_","U+0060","a","b","c","d","e","f","g","h","i","j","k","l","m","n","o","p","q",
    "r","s","t","u","v","w","x","y","z","{","|","}","~">>

DecodeByte(b) ==
  CASE b = 9 -> "\t"
    [] b = 10 -> "\n"
    [] b \in 32..126 -> Ascii[b - 31]
    [] OTHER -> "U+FFFD"

BufferToString(buf) == [i \in 1..Len(buf) |-> DecodeByte(buf[i])]

\* Buffer.concat
RECURSIVE BufferConcat(_)
BufferConcat(bufs) ==
  IF bufs = <<>> THEN <<>> ELSE Head(bufs) \o BufferConcat(Tail(bufs))

\* JavaScript truthiness of a string-or-undefined value
Truthy(v) == v # Undefined /\ v # <<>>

\* -------------------------------------------------------- program constants
REPO_NAME == <<"oddball-code-challenge-repo">>
BRANCH_NAME == <<"feature/initial-setup">>
MaxFiles == 2                      \* busboy limits.files
GithubUsername == <<"acct">>       \* the GITHUB_USERNAME secret

MULTIPART == <<"multipart/form-data">>
UNEXPECTED_END == <<"UNEXPECTED_END">>
SETUP_ERROR == <<"SETUP_ERROR">>
UnexpectedEndOfForm == <<"Unexpected end of form">>

\* ------------------------------------------------------------ the inputs
Handlers == {"V1", "V2"}
Methods == {"POST", "GET", "OPTIONS"}
ContentTypes ==
  { Undefined,
    <<"application/json">>,
    <<"multipart/form-data", "; boundary=", "X">> }

Timestamps == {7}                  \* the value Date.now() returns
FileFieldNames == {"resume", "job_description"}
Chunks == { <<32>>, <<120>> }      \* a blank and a letter

\* scalar parts a form can carry, with the value it carries
FieldValue(f) ==
  CASE f = "last_name" -> <<"O"," ","B","r","i","e","n">>
    [] f = "job_title" -> <<"Q","A"," "," ","L","e","a","d">>
    [] OTHER -> <<"x">>
FieldNames == {"last_name", "job_title", "resumeBuffer"}
MaxFields == 1      \* scalar parts in one form

\* messages of the errors the busboy stream reports
BusboyErrorMessages ==
  { <<"Malformed part header">>,
    <<"Multipart: ", "Unexpected end of form">> }
\* messages of the exception the Busboy constructor throws ("" is an Error
\* with no message)
SetupErrorMessages == { <<"Multipart: Boundary not found">>, <<>> }

VARIABLES
  handler,                \* which exported function serves the request
  method,                 \* req.method
  contentType,            \* req.headers["content-type"]
  pc,                     \* where the handler is suspended
  response,               \* the response sent, or NoResponse
  sent,                   \* number of responses sent
  axiosCalls,             \* completion requests issued
  gitCalls,               \* calls of initializeGitRepo
  completion,             \* how axios.post settled, or NoCompletion
  \* closure of parseMultipart
  resumeBuffer, jdBuffer, fields, finished, encounteredUnexpectedEnd,
  streams,                \* file streams that have not ended: [fieldname, buffers]
  filesSeen,              \* file parts busboy has announced
  truncatedParts,         \* file fields whose stored buffer was cut at the size limit
  busboy,                 \* "idle", "open" (parts still arrive) or "closed" (a
                          \* terminal event was emitted)
  timerPending,           \* the 15 s safety timer is armed
  parseResult,            \* value the promise resolved with, or Pending
  \* locals of the handler and of initializeGitRepo
  prompt, output, timestamp, uniqueRepoName, repoUrl,
  remote,                 \* the hosting account: created repository, pushed README
  readme,                 \* README.md in the local clone
  configCalls,            \* addConfig calls made
  commitAttempts,         \* commit calls made
  firstCommitError,       \* message of the first commit's failure, or Undefined
  peer                    \* another invocation served by the same instance, or NoPeer

parseVars == <<resumeBuffer, jdBuffer, fields, finished, encounteredUnexpectedEnd,
               streams, filesSeen, truncatedParts, busboy, timerPending, parseResult>>
\* what no step of the invocation changes: its request and the other invocation
reqVars == <<handler, method, contentType, peer>>
gitVars == <<timestamp, uniqueRepoName, repoUrl, remote, readme, configCalls, commitAttempts,
             firstCommitError>>
httpVars == <<pc, response, sent, axiosCalls, gitCalls, completion, prompt, output>>
vars == <<reqVars, httpVars, parseVars, gitVars>>

NoResponse ==
  [status |-> 0, kind |-> "none", error |-> Absent, details |-> Absent,
   challengeLink |-> Absent, githubRepo |-> Absent]
Pending == [settled |-> FALSE]
NoCompletion == [settled |-> FALSE]
NoPeer == [pc |-> "none"]
NoRemote == [created |-> FALSE, name |-> Undefined, pushed |-> FALSE, readme |-> Undefined]

Init ==
  /\ handler \in Handlers
  /\ method \in Methods
  /\ contentType \in ContentTypes
  /\ pc = "start"
  /\ response = NoResponse
  /\ sent = 0
  /\ axiosCalls = 0
  /\ gitCalls = 0
  /\ completion = NoCompletion
  /\ resumeBuffer = UndefinedValue
  /\ jdBuffer = UndefinedValue
  /\ fields = <<>>
  /\ finished = FALSE
  /\ encounteredUnexpectedEnd = FALSE
  /\ streams = {}
  /\ filesSeen = 0
  /\ truncatedParts = {}
  /\ busboy = "idle"
  /\ timerPending = FALSE
  /\ parseResult = Pending
  /\ prompt = Undefined
  /\ output = Undefined
  /\ timestamp = 0
  /\ uniqueRepoName = Undefined
  /\ repoUrl = Undefined
  /\ remote = NoRemote
  /\ readme = Undefined
  /\ configCalls = 0
  /\ commitAttempts = 0
  /\ firstCommitError = Undefined
  /\ peer = NoPeer

\* ------------------------------------------------------------ responses
\* res.status(s).json(body): the keys of body that are not given are Absent
Json(s, body) ==
  [status |-> s, kind |-> "json",
   error |-> IF "error" \in DOMAIN body THEN body.error ELSE Absent,
   details |-> IF "details" \in DOMAIN body THEN body.details ELSE Absent,
   challengeLink |-> IF "challengeLink" \in DOMAIN body
                     THEN body.challengeLink ELSE Absent,
   githubRepo |-> IF "githubRepo" \in DOMAIN body THEN body.githubRepo ELSE Absent]

\* res.status(s).send("")
SendEmpty(s) ==
  [status |-> s, kind |-> "text", error |-> Absent, details |-> Absent,
   challengeLink |-> Absent, githubRepo |-> Absent]

Respond(r) ==
  /\ response' = r
  /\ sent' = sent + 1
  /\ pc' = "done"

MethodNotAllowed ==
  <<"Method not allowed. Use POST.">>
BadContentType ==
  <<"Content-Type must be multipart/form-data">>
MalformedMultipart ==
  <<"Malformed multipart form data (unexpected end of form). Ensure you are sending as multipart/form-data with a proper boundary.">>
FilesRequired ==
  <<"Both resume and job description files are required.">>
FilesMustContainText ==
  <<"Both files must contain text content.">>

\* ------------------------------------------------------- parseMultipart
\* { resumeBuffer, jdBuffer, rawError, ...fields }: a scalar part overrides a
\* key of the same name written before the spread
Spread(base) ==
  [k \in DOMAIN base \cup DOMAIN fields |->
     IF k \in DOMAIN fields THEN StringOf(fields[k]) ELSE base[k]]

\* reading a key of the resolved object
Get(obj, k) == IF k \in DOMAIN obj THEN obj[k] ELSE UndefinedValue

\* finalize() without its finished guard: every call resolves again
FinalizeUnguarded(rb, jb, ue) ==
  /\ finished' = TRUE
  /\ parseResult' =
       [settled |-> TRUE,
        value |-> Spread([resumeBuffer |-> rb,
                          jdBuffer |-> jb,
                          rawError |-> IF ue THEN StringOf(UNEXPECTED_END)
                                             ELSE UndefinedValue])]

\* finalize() of parseMultipart, with the closure as it would be after the event
Finalize(rb, jb, ue) ==
  IF finished
  THEN UNCHANGED <<finished, parseResult>>
  ELSE /\ finished' = TRUE
       /\ parseResult' =
            [settled |-> TRUE,
             value |-> Spread([resumeBuffer |-> rb,
                               jdBuffer |-> jb,
                               rawError |-> IF ue THEN StringOf(UNEXPECTED_END)
                                                  ELSE UndefinedValue])]

\* busboy.on("file"): a file part is announced
FileStart(fieldname) ==
  /\ busboy = "open"
  /\ filesSeen < MaxFiles
  /\ filesSeen' = filesSeen + 1
  /\ streams' = streams \cup {[id |-> filesSeen + 1, fieldname |-> fieldname,
                                buffers |-> <<>>, truncated |-> FALSE]}
  /\ UNCHANGED <<resumeBuffer, jdBuffer, fields, finished, encounteredUnexpectedEnd,
                 truncatedParts, busboy, timerPending, parseResult>>
  /\ UNCHANGED <<reqVars, httpVars, gitVars>>

\* a data listener that stores what has arrived so far
FileDataStores(file, d) ==
  /\ busboy = "open"
  /\ file \in streams
  /\ ~file.truncated
  /\ Len(file.buffers) < MaxChunks
  /\ streams' = (streams \ {file}) \cup {[file EXCEPT !.buffers = Append(@, d)]}
  /\ LET buf == BufferOf(BufferConcat(Append(file.buffers, d))) IN
       /\ resumeBuffer' = IF file.fieldname = "resume" THEN buf ELSE resumeBuffer
       /\ jdBuffer' = IF file.fieldname = "job_description" THEN buf ELSE jdBuffer
  /\ UNCHANGED <<filesSeen, truncatedParts, fields, finished, encounteredUnexpectedEnd,
                 busboy, timerPending, parseResult>>
  /\ UNCHANGED <<reqVars, httpVars, gitVars>>

\* file.on("data")
FileData(file, d) ==
  /\ busboy = "open"
  /\ file \in streams
  /\ ~file.truncated
  /\ Len(file.buffers) < MaxChunks
  /\ streams' = (streams \ {file}) \cup {[file EXCEPT !.buffers = Append(@, d)]}
  /\ UNCHANGED <<filesSeen, truncatedParts, resumeBuffer, jdBuffer, fields, finished,
                 encounteredUnexpectedEnd,
                 busboy, timerPending, parseResult>>
  /\ UNCHANGED <<reqVars, httpVars, gitVars>>

\* file.on("limit"): the part is longer than limits.fileSize; busboy delivers
\* no more of its data and marks the stream truncated; the listener only logs
FileLimit(file) ==
  /\ busboy = "open"
  /\ file \in streams
  /\ ~file.truncated
  /\ file.buffers # <<>>
  /\ streams' = (streams \ {file}) \cup {[file EXCEPT !.truncated = TRUE]}
  /\ UNCHANGED <<filesSeen, truncatedParts, resumeBuffer, jdBuffer, fields, finished,
                 encounteredUnexpectedEnd, busboy, timerPending, parseResult>>
  /\ UNCHANGED <<reqVars, httpVars, gitVars>>

\* file.on("end")
FileEnd(file) ==
  /\ busboy = "open"
  /\ file \in streams
  /\ LET buf == BufferOf(BufferConcat(file.buffers)) IN
       /\ resumeBuffer' = IF file.fieldname = "resume" THEN buf ELSE resumeBuffer
       /\ jdBuffer' = IF file.fieldname = "job_description" THEN buf ELSE jdBuffer
  /\ truncatedParts' = IF file.truncated THEN truncatedParts \cup {file.fieldname}
                               ELSE truncatedParts \ {file.fieldname}
  /\ streams' = streams \ {file}
  /\ UNCHANGED <<filesSeen, fields, finished, encounteredUnexpectedEnd, busboy, timerPending,
                 parseResult>>
  /\ UNCHANGED <<reqVars, httpVars, gitVars>>

\* busboy.on("field")
Field(f, v) ==
  /\ busboy = "open"
  /\ f \in DOMAIN fields \/ Cardinality(DOMAIN fields) < MaxFields
  /\ fields' = (f :> v) @@ fields
  /\ UNCHANGED <<resumeBuffer, jdBuffer, finished, encounteredUnexpectedEnd, streams, filesSeen,
                 truncatedParts,
                 busboy, timerPending, parseResult>>
  /\ UNCHANGED <<reqVars, httpVars, gitVars>>

\* busboy.on("error")
BusboyError(msg) ==
  /\ busboy = "open"
  /\ encounteredUnexpectedEnd' =
       IF Includes(msg, UnexpectedEndOfForm) THEN TRUE ELSE encounteredUnexpectedEnd
  /\ UNCHANGED <<resumeBuffer, jdBuffer, fields, finished, streams, filesSeen,
                 truncatedParts, busboy,
                 timerPending, parseResult>>
  /\ UNCHANGED <<reqVars, httpVars, gitVars>>

\* busboy.on("finish" | "close" | "end", finalize): busboy emits them, one
\* after the other, when it is done with the body
Terminal(ev) ==
  /\ busboy \in {"open", "closed"}
  /\ ev \in {"finish", "close", "end"}
  /\ Finalize(resumeBuffer, jdBuffer, encounteredUnexpectedEnd)
  /\ busboy' = "closed"
  /\ UNCHANGED <<resumeBuffer, jdBuffer, fields, encounteredUnexpectedEnd, streams, filesSeen,
                 truncatedParts,
                 timerPending>>
  /\ UNCHANGED <<reqVars, httpVars, gitVars>>

\* the safety timer expiring without calling finalize
SafetyTimerIdle ==
  /\ timerPending
  /\ timerPending' = FALSE
  /\ UNCHANGED <<resumeBuffer, jdBuffer, fields, finished, encounteredUnexpectedEnd, streams,
                 filesSeen, truncatedParts, busboy, parseResult>>
  /\ UNCHANGED <<reqVars, httpVars, gitVars>>

\* setTimeout(() => finalize(), 15000)
SafetyTimer ==
  /\ timerPending
  /\ timerPending' = FALSE
  /\ Finalize(resumeBuffer, jdBuffer, encounteredUnexpectedEnd)
  /\ UNCHANGED <<resumeBuffer, jdBuffer, fields, encounteredUnexpectedEnd, streams, filesSeen,
                 truncatedParts,
                 busboy>>
  /\ UNCHANGED <<reqVars, httpVars, gitVars>>

\* ------------------------------------------------- the completion provider
RateLimit == <<"Rate", " ", "limit">>
RateLimitExceeded ==
  RateLimit \o <<" ", "exceeded.", " ", "Try", " ", "again", " ", "later.">>
EndpointNotFound == <<"OpenAI endpoint not found.">>
InvalidKey == <<"Invalid OpenAI API key.">>
ServiceError == <<"OpenAI service error: ">>
UnexpectedServerError == <<"Unexpected server error while generating challenge.">>

UpstreamMessage == <<"upstream message">>
\* the errors axios.post rejects with: an HTTP error carries the response's
\* status and, when the provider sent one, data.error.message; a network error
\* or a timeout carries no response
AxiosErrors ==
  { [axios |-> TRUE, hasResponse |-> TRUE, status |-> st, dataMessage |-> dm,
     message |-> <<"Request failed with status code ">> \o Digits(st)]
      : st \in {401, 404, 429, 500}, dm \in {Undefined, <<>>, UpstreamMessage} }
  \cup
  { [axios |-> TRUE, hasResponse |-> FALSE, status |-> 0, dataMessage |-> Undefined,
     message |-> m]
      : m \in { <<"timeout of 300000ms exceeded">>, <<"Network Error">> } }

\* an error that is not an axios error
PlainError(msg) ==
  [axios |-> FALSE, hasResponse |-> FALSE, status |-> 0, dataMessage |-> Undefined,
   message |-> msg]

\* the RequestError octokit rejects with when the hosting API refuses a call:
\* it carries the HTTP status but is not an axios error
HostingError(st, msg) ==
  [axios |-> FALSE, hasResponse |-> TRUE, status |-> st, dataMessage |-> Undefined,
   message |-> msg]

\* response.data.choices[0].message.content of a 2xx answer (Undefined: the
\* answer has no such content)
CompletionContents ==
  { Undefined, <<" ">>, <<" ", "challenge text", "\n">> }

\* the catch block without its 429 branch
HandleErrorNoRateLimit(error) ==
  IF error.axios
  THEN LET message == IF Truthy(error.dataMessage) THEN error.dataMessage
                      ELSE error.message
       IN  IF error.hasResponse /\ error.status = 404
             THEN Json(404, [error |-> EndpointNotFound])
           ELSE IF error.hasResponse /\ error.status = 401
             THEN Json(401, [error |-> InvalidKey])
           ELSE Json(503, [error |-> ServiceError \o message])
  ELSE Json(500, [error |-> UnexpectedServerError, details |-> error.message])

\* the catch block reporting axios's own message instead of the provider's
HandleErrorAxiosMessage(error) ==
  IF error.axios
  THEN IF error.hasResponse /\ error.status = 404
         THEN Json(404, [error |-> EndpointNotFound])
       ELSE IF error.hasResponse /\ error.status = 401
         THEN Json(401, [error |-> InvalidKey])
       ELSE IF error.hasResponse /\ error.status = 429
         THEN Json(429, [error |-> RateLimitExceeded])
       ELSE Json(503, [error |-> ServiceError \o error.message])
  ELSE Json(500, [error |-> UnexpectedServerError, details |-> error.message])

\* the catch block answering 500 to an axios error that carries no response
HandleErrorNoResponse500(error) ==
  IF error.axios /\ error.hasResponse
  THEN LET message == IF Truthy(error.dataMessage) THEN error.dataMessage
                      ELSE error.message
       IN  IF error.status = 404
             THEN Json(404, [error |-> EndpointNotFound])
           ELSE IF error.status = 401
             THEN Json(401, [error |-> InvalidKey])
           ELSE IF error.status = 429
             THEN Json(429, [error |-> RateLimitExceeded])
           ELSE Json(503, [error |-> ServiceError \o message])
  ELSE Json(500, [error |-> UnexpectedServerError, details |-> error.message])

\* the catch block classifying every error that carries a status
HandleErrorAnyStatus(error) ==
  IF error.hasResponse
  THEN LET message == IF Truthy(error.dataMessage) THEN error.dataMessage
                      ELSE error.message
       IN  IF error.status = 404
             THEN Json(404, [error |-> EndpointNotFound])
           ELSE IF error.status = 401
             THEN Json(401, [error |-> InvalidKey])
           ELSE IF error.status = 429
             THEN Json(429, [error |-> RateLimitExceeded])
           ELSE Json(503, [error |-> ServiceError \o message])
  ELSE Json(500, [error |-> UnexpectedServerError, details |-> error.message])

\* the catch block of the handler
HandleError(error) ==
  IF error.axios
  THEN LET message == IF Truthy(error.dataMessage) THEN error.dataMessage
                      ELSE error.message
       IN  IF error.hasResponse /\ error.status = 404
             THEN Json(404, [error |-> EndpointNotFound])
           ELSE IF error.hasResponse /\ error.status = 401
             THEN Json(401, [error |-> InvalidKey])
           ELSE IF error.hasResponse /\ error.status = 429
             THEN Json(429, [error |-> RateLimitExceeded])
           ELSE Json(503, [error |-> ServiceError \o message])
  ELSE Json(500, [error |-> UnexpectedServerError, details |-> error.message])

\* ------------------------------------------------------------ the handler
\* the string a key of the parsed form holds, or Undefined
Str(v) == IF v.type = "undefined" THEN Undefined ELSE v.val

\* !v for a Buffer, a string or undefined
Falsy(v) == v.type = "undefined" \/ (v.type = "string" /\ v.val = <<>>)

\* v.toString("utf-8")
ToText(v) == IF v.type = "buffer" THEN BufferToString(v.val) ELSE v.val

IsPreflight == handler = "V1" /\ method = "OPTIONS"
\* the content-type check accepting any content type that is present
IsMultipartAnyType == contentType # Undefined
IsMultipart == contentType # Undefined /\ Includes(contentType, MULTIPART)

\* if (req.method === "OPTIONS") res.status(204).send("")
Preflight ==
  /\ pc = "start"
  /\ IsPreflight
  /\ Respond(SendEmpty(204))
  /\ UNCHANGED <<axiosCalls, gitCalls, completion, prompt, output>>
  /\ UNCHANGED <<reqVars, parseVars, gitVars>>

\* if (req.method !== "POST") 405
RejectMethod ==
  /\ pc = "start"
  /\ ~IsPreflight
  /\ method # "POST"
  /\ Respond(Json(405, [error |-> MethodNotAllowed]))
  /\ UNCHANGED <<axiosCalls, gitCalls, completion, prompt, output>>
  /\ UNCHANGED <<reqVars, parseVars, gitVars>>

\* if (!contentType?.includes("multipart/form-data")) 400
RejectContentType ==
  /\ pc = "start"
  /\ method = "POST"
  /\ ~IsMultipart
  /\ Respond(Json(400, [error |-> BadContentType]))
  /\ UNCHANGED <<axiosCalls, gitCalls, completion, prompt, output>>
  /\ UNCHANGED <<reqVars, parseVars, gitVars>>

\* parseMultipart(req) up to the end of its synchronous part: busboy is fed and
\* the safety timer armed
StartParse ==
  /\ pc = "start"
  /\ method = "POST"
  /\ IsMultipart
  /\ pc' = "awaitParse"
  /\ busboy' = "open"
  /\ timerPending' = TRUE
  /\ UNCHANGED <<resumeBuffer, jdBuffer, fields, finished, encounteredUnexpectedEnd,
                 streams, filesSeen, truncatedParts, parseResult>>
  /\ UNCHANGED <<response, sent, axiosCalls, gitCalls, completion, prompt, output>>
  /\ UNCHANGED <<reqVars, gitVars>>

\* parseMultipart(req) when setting busboy up throws:
\* resolve({ rawError: e?.message || "SETUP_ERROR" })
SetupFailure(msg) ==
  /\ pc = "start"
  /\ method = "POST"
  /\ IsMultipart
  /\ pc' = "awaitParse"
  /\ parseResult' =
       [settled |-> TRUE,
        value |-> [rawError |-> StringOf(IF Truthy(msg) THEN msg ELSE SETUP_ERROR)]]
  /\ UNCHANGED <<resumeBuffer, jdBuffer, fields, finished, encounteredUnexpectedEnd,
                 streams, filesSeen, truncatedParts, busboy, timerPending>>
  /\ UNCHANGED <<response, sent, axiosCalls, gitCalls, completion, prompt, output>>
  /\ UNCHANGED <<reqVars, gitVars>>

\* the await of parseMultipart can return
Extracted == pc = "awaitParse" /\ parseResult.settled

Parsed(k) == Get(parseResult.value, k)
ResumeText == ToText(Parsed("resumeBuffer"))
JdText == ToText(Parsed("jdBuffer"))
\* the malformed-body check taking any rawError
IsUnexpectedEndAny == Parsed("rawError").type = "string"
IsUnexpectedEnd == Parsed("rawError") = StringOf(UNEXPECTED_END)
FilesMissing == Falsy(Parsed("resumeBuffer")) \/ Falsy(Parsed("jdBuffer"))
\* the blank check with the job description forgotten
FilesBlankResumeOnly == Trim(ResumeText) = <<>>
FilesBlank == Trim(ResumeText) = <<>> \/ Trim(JdText) = <<>>

\* if (rawError === "UNEXPECTED_END") 400
RespondMalformed ==
  /\ Extracted
  /\ IsUnexpectedEnd
  /\ Respond(Json(400, [error |-> MalformedMultipart]))
  /\ UNCHANGED <<axiosCalls, gitCalls, completion, prompt, output>>
  /\ UNCHANGED <<reqVars, parseVars, gitVars>>

\* if (!resumeBuffer || !jdBuffer) 400
RespondMissing ==
  /\ Extracted
  /\ ~IsUnexpectedEnd
  /\ FilesMissing
  /\ Respond(Json(400, [error |-> FilesRequired]))
  /\ UNCHANGED <<axiosCalls, gitCalls, completion, prompt, output>>
  /\ UNCHANGED <<reqVars, parseVars, gitVars>>

\* the blank-files answer without its return: the handler goes on
RespondBlankNoReturn ==
  /\ Extracted
  /\ ~IsUnexpectedEnd
  /\ ~FilesMissing
  /\ FilesBlank
  /\ response' = Json(400, [error |-> FilesMustContainText])
  /\ sent' = sent + 1
  /\ pc' = "validated"
  /\ UNCHANGED <<axiosCalls, gitCalls, completion, prompt, output>>
  /\ UNCHANGED <<reqVars, parseVars, gitVars>>

\* if (!resumeText.trim() || !jdText.trim()) 400
RespondBlank ==
  /\ Extracted
  /\ ~IsUnexpectedEnd
  /\ ~FilesMissing
  /\ FilesBlank
  /\ Respond(Json(400, [error |-> FilesMustContainText]))
  /\ UNCHANGED <<axiosCalls, gitCalls, completion, prompt, output>>
  /\ UNCHANGED <<reqVars, parseVars, gitVars>>

Validated ==
  /\ Extracted
  /\ ~IsUnexpectedEnd
  /\ ~FilesMissing
  /\ ~FilesBlank
  /\ pc' = "validated"
  /\ UNCHANGED <<response, sent, axiosCalls, gitCalls, completion, prompt, output>>
  /\ UNCHANGED <<reqVars, parseVars, gitVars>>

\* the section headers the template asks the provider for, character by character
CodingChallenge ==
  <<"#"," ","C","o","d","i","n","g"," ","C","h","a","l","l","e","n","g","e">>
ProblemDescription ==
  <<"#","#"," ","P","r","o","b","l","e","m"," ","D","e","s","c","r","i","p","t","i","o",
    "n">>
Requirements ==
  <<"#","#"," ","R","e","q","u","i","r","e","m","e","n","t","s">>
TechnicalSpecifications ==
  <<"#","#"," ","T","e","c","h","n","i","c","a","l"," ","S","p","e","c","i","f","i","c",
    "a","t","i","o","n","s">>
EvaluationCriteria ==
  <<"#","#"," ","E","v","a","l","u","a","t","i","o","n"," ","C","r","i","t","e","r","i",
    "a">>
SubmissionInstructions ==
  <<"#","#"," ","S","u","b","m","i","s","s","i","o","n"," ","I","n","s","t","r","u","c",
    "t","i","o","n","s">>
SectionHeaders ==
  <<CodingChallenge, ProblemDescription, Requirements, TechnicalSpecifications,
    EvaluationCriteria, SubmissionInstructions>>

\* the structure with a section forgotten
PromptStructureNoCriteria ==
  CodingChallenge \o <<"\n">> \o ProblemDescription \o <<"\n">> \o Requirements
  \o <<"\n">> \o TechnicalSpecifications \o <<"\n">> \o SubmissionInstructions

\* "# Coding Challenge\n## Problem Description\n ... ## Submission Instructions"
PromptStructure ==
  CodingChallenge \o <<"\n">> \o ProblemDescription \o <<"\n">> \o Requirements
  \o <<"\n">> \o TechnicalSpecifications \o <<"\n">> \o EvaluationCriteria
  \o <<"\n">> \o SubmissionInstructions

\* the template literal of generateCodingChallenge
PromptV1(resumeText, jdText, difficulty, first_name, job_title) ==
  <<"You are an expert technical interviewer. ... appropriate for a(n) ">>
  \o (IF Truthy(difficulty) THEN difficulty ELSE <<"intermediate">>)
  \o <<" ... Take 40% of the user's resume and 60% of the job description ...",
       "\n\nResume:\n">>
  \o resumeText
  \o <<"\n\nJob Description:\n">>
  \o jdText
  \o <<"\n\nGenerate a coding challenge with the following structure:\n">>
  \o PromptStructure
  \o <<"\n\n", "Coding Challenge:", " ... include the name of the user ... using ">>
  \o Interpolate(first_name)
  \o <<" in the Problem Description, if provided.\n    - Be sure to include the ">>
  \o (IF Truthy(job_title) THEN job_title ELSE <<>>)
  \o <<" in the introduction, if provided.\n",
       "    - The challenge should be able to be completed in 90 minutes.">>

\* the template literal of generateCodingChallengeV2
PromptV2(resumeText, jdText) ==
  <<"You are an expert technical interviewer. ... ",
    "Take 40% of the user's resume and 60% of the job description ...",
    "\n\nResume:\n">>
  \o resumeText
  \o <<"\n\nJob Description:\n">>
  \o jdText
  \o <<"\n\nGenerate a coding challenge with the following structure:\n">>
  \o PromptStructure
  \o <<"\n\n", "Coding Challenge:">>

\* const prompt = `...`
BuildPrompt ==
  /\ pc = "validated"
  /\ prompt' = IF handler = "V1"
               THEN PromptV1(ResumeText, JdText, Str(Parsed("difficulty")),
                             Str(Parsed("first_name")), Str(Parsed("job_title")))
               ELSE PromptV2(ResumeText, JdText)
  /\ pc' = "promptBuilt"
  /\ UNCHANGED <<response, sent, axiosCalls, gitCalls, completion, output>>
  /\ UNCHANGED <<reqVars, parseVars, gitVars>>

\* await axios.post(...): the request is issued
CallCompletion ==
  /\ pc = "promptBuilt"
  /\ axiosCalls' = axiosCalls + 1
  /\ pc' = "awaitAxios"
  /\ UNCHANGED <<response, sent, gitCalls, completion, prompt, output>>
  /\ UNCHANGED <<reqVars, parseVars, gitVars>>

\* a rejected completion request issued again
CompletionFailsRetry(error) ==
  /\ pc = "awaitAxios"
  /\ completion' = [settled |-> TRUE, ok |-> FALSE, error |-> error]
  /\ pc' = "promptBuilt"
  /\ UNCHANGED <<response, sent, axiosCalls, gitCalls, prompt, output>>
  /\ UNCHANGED <<reqVars, parseVars, gitVars>>

\* axios.post rejects: the catch block answers
CompletionFails(error) ==
  /\ pc = "awaitAxios"
  /\ completion' = [settled |-> TRUE, ok |-> FALSE, error |-> error]
  /\ Respond(HandleError(error))
  /\ UNCHANGED <<axiosCalls, gitCalls, prompt, output>>
  /\ UNCHANGED <<reqVars, parseVars, gitVars>>

\* axios.post resolves; output = response.data.choices[0].message.content.trim()
CompletionSucceeds(content) ==
  /\ pc = "awaitAxios"
  /\ IF content = Undefined
     THEN /\ Respond(HandleError(PlainError(
                       <<"Cannot read properties of undefined (reading 'trim')">>)))
          /\ UNCHANGED output
     ELSE /\ output' = Trim(content)
          /\ pc' = "completed"
          /\ UNCHANGED <<response, sent>>
  /\ completion' = [settled |-> TRUE, ok |-> TRUE, content |-> content]
  /\ UNCHANGED <<axiosCalls, gitCalls, prompt>>
  /\ UNCHANGED <<reqVars, parseVars, gitVars>>

\* --------------------------------------------------------- initializeGitRepo
\* const slugify = (str) => str ? str.trim().replace(/\s+/g, ' ').toLowerCase()
\*                                   .split(' ').join('-') : ''
Slugify(str) ==
  IF Truthy(str) THEN SplitJoin(ToLowerCase(CollapseWhitespace(Trim(str)))) ELSE <<>>

\* last_name?.toLowerCase()
LowerLastName(last_name) ==
  IF last_name = Undefined THEN Undefined ELSE ToLowerCase(last_name)

\* `${REPO_NAME}-${timestamp}-${last_name?.toLowerCase()}-${slugify(job_title)}`
UniqueRepoName(now, last_name, job_title) ==
  REPO_NAME \o <<"-">> \o Digits(now) \o <<"-">>
  \o Interpolate(LowerLastName(last_name)) \o <<"-">> \o Slugify(job_title)

\* a clone directory shared by all invocations
LocalPathShared(name) == <<"/tmp", "/", "repo">>

\* join(os.tmpdir(), uniqueRepoName)
LocalPath(name) == <<"/tmp", "/">> \o name

\* repoResponse.data.html_url, as the hosting API answers for the account
HtmlUrl(name) == <<"https://github.com/">> \o GithubUsername \o <<"/">> \o name

\* the deep link read from a key the returned object does not have
DevUrlUndefined(name) == Undefined

DevUrl(name) ==
  <<"https://vscode.dev/github/">> \o GithubUsername \o <<"/">> \o name
  \o <<"/tree/">> \o BRANCH_NAME

\* the README without its title line
ReadmeNoTitle(name, cdChallenge) == cdChallenge

\* `# ${uniqueRepoName}\n\n${cdChallenge}`
Readme(name, cdChallenge) == <<"#", " ">> \o name \o <<"\n", "\n">> \o cdChallenge

IdentityUnknown == <<"i","d","e","n","t","i","t","y"," ","u","n","k","n","o","w","n">>
\* messages git fails with
GitErrorMessages ==
  { <<"A","u","t","h","o","r"," ","I","d","e","n","t","i","t","y"," ",
      "u","n","k","n","o","w","n">>,
    <<"f","a","t","a","l">> }
\* message of the failure of a step other than commit
Failure(step) == <<step, " failed">>

\* a retry of the commit whatever its failure
IsIdentityUnknownAny(message) == TRUE

\* /identity unknown/i.test(message)
IsIdentityUnknown(message) == Includes(ToLowerCase(message), IdentityUnknown)

\* the arguments the handler passes
PassedLastName == IF handler = "V1" THEN Str(Parsed("last_name")) ELSE Undefined
PassedJobTitle == IF handler = "V1" THEN Str(Parsed("job_title")) ELSE Undefined

\* the errors createForAuthenticatedUser rejects with: a failure of the call
\* itself, or the hosting API refusing the token or rate-limiting the account
CreateErrors ==
  { PlainError(Failure("create")),
    HostingError(401, <<"Bad credentials">>),
    HostingError(429, <<"You have exceeded a secondary rate limit">>) }

\* an exception leaves initializeGitRepo (rethrown by its catch) and reaches
\* the handler's catch block
GitThrows(msg) == Respond(HandleError(PlainError(msg)))

\* initializeGitRepo is called and runs up to
\* await octokit.rest.repos.createForAuthenticatedUser(...)
CallInitializeGitRepo(now) ==
  /\ pc = "completed"
  /\ gitCalls' = gitCalls + 1
  /\ timestamp' = now
  /\ uniqueRepoName' = UniqueRepoName(now, PassedLastName, PassedJobTitle)
  /\ pc' = "awaitCreate"
  /\ UNCHANGED <<response, sent, axiosCalls, completion, prompt, output>>
  /\ UNCHANGED <<repoUrl, remote, readme, configCalls, commitAttempts, firstCommitError>>
  /\ UNCHANGED <<reqVars, parseVars>>

\* createForAuthenticatedUser settles; on success git.clone is started
CreateRepo(ok) ==
  /\ pc = "awaitCreate"
  /\ IF ok
     THEN /\ remote' = [created |-> TRUE, name |-> uniqueRepoName, pushed |-> FALSE,
                        readme |-> Undefined]
          /\ repoUrl' = HtmlUrl(uniqueRepoName)
          /\ pc' = "awaitClone"
          /\ UNCHANGED <<response, sent>>
     ELSE /\ \E error \in CreateErrors : Respond(HandleError(error))
          /\ UNCHANGED <<remote, repoUrl>>
  /\ UNCHANGED <<axiosCalls, gitCalls, completion, prompt, output>>
  /\ UNCHANGED <<timestamp, uniqueRepoName, readme, configCalls, commitAttempts, firstCommitError>>
  /\ UNCHANGED <<reqVars, parseVars>>

\* git.clone settles; on success README.md is written (writeFileSync may
\* throw) and the first addConfig is started
CloneRepo(outcome) ==
  /\ pc = "awaitClone"
  /\ IF outcome = "ok"
     THEN /\ readme' = Readme(uniqueRepoName, output)
          /\ configCalls' = configCalls + 1
          /\ pc' = "awaitConfigName"
          /\ UNCHANGED <<response, sent>>
     ELSE /\ GitThrows(Failure(IF outcome = "cloneFails" THEN "clone" ELSE "write"))
          /\ UNCHANGED <<readme, configCalls>>
  /\ UNCHANGED <<axiosCalls, gitCalls, completion, prompt, output>>
  /\ UNCHANGED <<timestamp, uniqueRepoName, repoUrl, remote, commitAttempts, firstCommitError>>
  /\ UNCHANGED <<reqVars, parseVars>>

\* a failure of addConfig("user.name") thrown instead of logged
ConfigNameAborts(ok) ==
  /\ pc = "awaitConfigName"
  /\ IF ok
     THEN /\ configCalls' = configCalls + 1
          /\ pc' = "awaitConfigEmail"
          /\ UNCHANGED <<response, sent>>
     ELSE /\ GitThrows(Failure("config"))
          /\ UNCHANGED configCalls
  /\ UNCHANGED <<axiosCalls, gitCalls, completion, prompt, output>>
  /\ UNCHANGED <<timestamp, uniqueRepoName, repoUrl, remote, readme, commitAttempts,
                 firstCommitError>>
  /\ UNCHANGED <<reqVars, parseVars>>

\* addConfig("user.name") settles: on success addConfig("user.email") is
\* started, on failure the catch logs and checkoutLocalBranch is started
ConfigName(ok) ==
  /\ pc = "awaitConfigName"
  /\ IF ok
     THEN /\ configCalls' = configCalls + 1
          /\ pc' = "awaitConfigEmail"
     ELSE /\ pc' = "awaitCheckout"
          /\ UNCHANGED configCalls
  /\ UNCHANGED <<response, sent, axiosCalls, gitCalls, completion, prompt, output>>
  /\ UNCHANGED <<timestamp, uniqueRepoName, repoUrl, remote, readme, commitAttempts,
                 firstCommitError>>
  /\ UNCHANGED <<reqVars, parseVars>>

\* addConfig("user.email") settles; either way checkoutLocalBranch is started
ConfigEmail(ok) ==
  /\ pc = "awaitConfigEmail"
  /\ ok \in BOOLEAN
  /\ pc' = "awaitCheckout"
  /\ UNCHANGED <<response, sent, axiosCalls, gitCalls, completion, prompt, output>>
  /\ UNCHANGED gitVars
  /\ UNCHANGED <<reqVars, parseVars>>

\* checkoutLocalBranch settles; on success add("README.md") is started
Checkout(ok) ==
  /\ pc = "awaitCheckout"
  /\ IF ok
     THEN pc' = "awaitAdd" /\ UNCHANGED <<response, sent>>
     ELSE GitThrows(Failure("checkout"))
  /\ UNCHANGED <<axiosCalls, gitCalls, completion, prompt, output>>
  /\ UNCHANGED gitVars
  /\ UNCHANGED <<reqVars, parseVars>>

\* add settles; on success the commit is started
Add(ok) ==
  /\ pc = "awaitAdd"
  /\ IF ok
     THEN /\ commitAttempts' = commitAttempts + 1
          /\ pc' = "awaitCommit"
          /\ UNCHANGED <<response, sent>>
     ELSE /\ GitThrows(Failure("add"))
          /\ UNCHANGED commitAttempts
  /\ UNCHANGED <<axiosCalls, gitCalls, completion, prompt, output>>
  /\ UNCHANGED <<timestamp, uniqueRepoName, repoUrl, remote, readme, configCalls, firstCommitError>>
  /\ UNCHANGED <<reqVars, parseVars>>

\* the first commit settles: on success push is started; on an identity
\* failure addConfig("user.name") is started again; any other failure is thrown
Commit(ok, msg) ==
  /\ pc = "awaitCommit"
  /\ IF ok
     THEN /\ pc' = "awaitPush"
          /\ UNCHANGED <<response, sent, configCalls, firstCommitError>>
     ELSE /\ firstCommitError' = msg
          /\ IF IsIdentityUnknown(msg)
             THEN /\ configCalls' = configCalls + 1
                  /\ pc' = "awaitRetryConfigName"
                  /\ UNCHANGED <<response, sent>>
             ELSE /\ GitThrows(msg)
                  /\ UNCHANGED configCalls
  /\ UNCHANGED <<axiosCalls, gitCalls, completion, prompt, output>>
  /\ UNCHANGED <<timestamp, uniqueRepoName, repoUrl, remote, readme, commitAttempts>>
  /\ UNCHANGED <<reqVars, parseVars>>

\* the retry's addConfig("user.name") settles
RetryConfigName(ok) ==
  /\ pc = "awaitRetryConfigName"
  /\ IF ok
     THEN /\ configCalls' = configCalls + 1
          /\ pc' = "awaitRetryConfigEmail"
          /\ UNCHANGED <<response, sent>>
     ELSE /\ GitThrows(Failure("config"))
          /\ UNCHANGED configCalls
  /\ UNCHANGED <<axiosCalls, gitCalls, completion, prompt, output>>
  /\ UNCHANGED <<timestamp, uniqueRepoName, repoUrl, remote, readme, commitAttempts,
                 firstCommitError>>
  /\ UNCHANGED <<reqVars, parseVars>>

\* the retry's addConfig("user.email") settles; on success the commit is
\* started a second time
RetryConfigEmail(ok) ==
  /\ pc = "awaitRetryConfigEmail"
  /\ IF ok
     THEN /\ commitAttempts' = commitAttempts + 1
          /\ pc' = "awaitRetryCommit"
          /\ UNCHANGED <<response, sent>>
     ELSE /\ GitThrows(Failure("config"))
          /\ UNCHANGED commitAttempts
  /\ UNCHANGED <<axiosCalls, gitCalls, completion, prompt, output>>
  /\ UNCHANGED <<timestamp, uniqueRepoName, repoUrl, remote, readme, configCalls,
                 firstCommitError>>
  /\ UNCHANGED <<reqVars, parseVars>>

\* the second commit settles: on success push is started, a failure is thrown
RetryCommit(ok, msg) ==
  /\ pc = "awaitRetryCommit"
  /\ IF ok
     THEN pc' = "awaitPush" /\ UNCHANGED <<response, sent>>
     ELSE GitThrows(msg)
  /\ UNCHANGED <<axiosCalls, gitCalls, completion, prompt, output>>
  /\ UNCHANGED gitVars
  /\ UNCHANGED <<reqVars, parseVars>>

\* a push whose failure deletes the repository again
PushCleansUp(ok) ==
  /\ pc = "awaitPush"
  /\ IF ok
     THEN /\ remote' = [remote EXCEPT !.pushed = TRUE, !.readme = readme]
          /\ pc' = "provisioned"
          /\ UNCHANGED <<response, sent>>
     ELSE /\ GitThrows(Failure("push"))
          /\ remote' = NoRemote
  /\ UNCHANGED <<axiosCalls, gitCalls, completion, prompt, output>>
  /\ UNCHANGED <<timestamp, uniqueRepoName, repoUrl, readme, configCalls, commitAttempts,
                 firstCommitError>>
  /\ UNCHANGED <<reqVars, parseVars>>

\* push settles; on success initializeGitRepo returns its three URLs
Push(ok) ==
  /\ pc = "awaitPush"
  /\ IF ok
     THEN /\ remote' = [remote EXCEPT !.pushed = TRUE, !.readme = readme]
          /\ pc' = "provisioned"
          /\ UNCHANGED <<response, sent>>
     ELSE /\ GitThrows(Failure("push"))
          /\ UNCHANGED remote
  /\ UNCHANGED <<axiosCalls, gitCalls, completion, prompt, output>>
  /\ UNCHANGED <<timestamp, uniqueRepoName, repoUrl, readme, configCalls, commitAttempts,
                 firstCommitError>>
  /\ UNCHANGED <<reqVars, parseVars>>

\* res.json({ challengeLink: repoInfo?.devUrl, githubRepo: repoInfo?.repoUrl })
RespondSuccess ==
  /\ pc = "provisioned"
  /\ Respond(Json(200, [challengeLink |-> DevUrl(uniqueRepoName),
                        githubRepo |-> repoUrl]))
  /\ UNCHANGED <<axiosCalls, gitCalls, completion, prompt, output>>
  /\ UNCHANGED gitVars
  /\ UNCHANGED <<reqVars, parseVars>>

\* ------------------------------------------------------ the specification
Next ==
  \/ Preflight
  \/ RejectMethod
  \/ RejectContentType
  \/ StartParse
  \/ \E msg \in SetupErrorMessages : SetupFailure(msg)
  \/ \E f \in FileFieldNames : FileStart(f)
  \/ \E file \in streams, d \in Chunks : FileData(file, d)
  \/ \E file \in streams : FileEnd(file)
  \/ \E f \in FieldNames : Field(f, FieldValue(f))
  \/ \E msg \in BusboyErrorMessages : BusboyError(msg)
  \/ \E ev \in {"finish", "close", "end"} : Terminal(ev)
  \/ SafetyTimer
  \/ RespondMalformed
  \/ RespondMissing
  \/ RespondBlank
  \/ Validated
  \/ BuildPrompt
  \/ CallCompletion
  \/ \E error \in AxiosErrors : CompletionFails(error)
  \/ \E content \in CompletionContents : CompletionSucceeds(content)
  \/ \E t \in Timestamps : CallInitializeGitRepo(t)
  \/ \E ok \in BOOLEAN : CreateRepo(ok)
  \/ \E outcome \in {"ok", "cloneFails", "writeFails"} : CloneRepo(outcome)
  \/ \E ok \in BOOLEAN : ConfigName(ok)
  \/ \E ok \in BOOLEAN : ConfigEmail(ok)
  \/ \E ok \in BOOLEAN : Checkout(ok)
  \/ \E ok \in BOOLEAN : Add(ok)
  \/ \E ok \in BOOLEAN, msg \in GitErrorMessages : Commit(ok, msg)
  \/ \E ok \in BOOLEAN : RetryConfigName(ok)
  \/ \E ok \in BOOLEAN : RetryConfigEmail(ok)
  \/ \E ok \in BOOLEAN, msg \in GitErrorMessages : RetryCommit(ok, msg)
  \/ \E ok \in BOOLEAN : Push(ok)
  \/ RespondSuccess

Spec == Init /\ [][Next]_vars

\* ------------------------------------------- repository name generation
\* uniqueRepoName as a function of its inputs: the call of initializeGitRepo
\* from every form of metadata the client can post
LastNames ==
  { <<"O"," ","B","r","i","e","n">>,
    <<"S","m","i","t","h">>,
    <<"d","e"," ","l","a"," ","C","r","u","z">>,
    <<"N","g">> }
JobTitles ==
  { <<"S","e","n","i","o","r"," "," ","Q","A"," ","E","n","g","i","n","e","e","r">>,
    <<"Q","A"," "," ","L","e","a","d">>,
    <<"D","e","v","e","l","o","p","e","r">>,
    <<"S","R","E","\t","I","I">> }

\* the scalar parts of a form carrying any of last_name and job_title
MetadataForms ==
  {<<>>}
  \cup {[k \in {"last_name"} |-> l] : l \in LastNames}
  \cup {[k \in {"job_title"} |-> j] : j \in JobTitles}
  \cup {[k \in {"last_name", "job_title"} |-> IF k = "last_name" THEN lj[1] ELSE lj[2]] :
          lj \in LastNames \X JobTitles}

\* the scalar parts the client form sends (submitFiles): the job title goes
\* under the name job_desc_text
ClientForms ==
  {[k \in {"first_name", "last_name", "job_desc_text", "difficulty"} |->
      CASE k = "first_name" -> <<"A","n","n">>
        [] k = "last_name" -> l
        [] k = "job_desc_text" -> j
        [] OTHER -> <<"s","e","n","i","o","r">>] :
     l \in {<<"S","m","i","t","h">>}, j \in JobTitles}

\* the handler just before it calls initializeGitRepo: both files read, the
\* form parsed, the completion received
NameInit ==
  /\ handler \in Handlers
  /\ method = "POST"
  /\ contentType = <<"multipart/form-data", "; boundary=", "X">>
  /\ pc = "completed"
  /\ response = NoResponse
  /\ sent = 0
  /\ axiosCalls = 1
  /\ gitCalls = 0
  /\ completion = [settled |-> TRUE, ok |-> TRUE,
                   content |-> <<" ", "challenge text", "\n">>]
  /\ resumeBuffer = BufferOf(<<120>>)
  /\ jdBuffer = BufferOf(<<120>>)
  /\ fields \in MetadataForms \cup ClientForms
  /\ finished = TRUE
  /\ encounteredUnexpectedEnd = FALSE
  /\ streams = {}
  /\ filesSeen = 2
  /\ truncatedParts = {}
  /\ busboy = "closed"
  /\ timerPending = TRUE
  /\ parseResult = [settled |-> TRUE,
                    value |-> Spread([resumeBuffer |-> BufferOf(<<120>>),
                                      jdBuffer |-> BufferOf(<<120>>),
                                      rawError |-> UndefinedValue])]
  /\ prompt = IF handler = "V1"
              THEN PromptV1(ResumeText, JdText, Str(Parsed("difficulty")),
                            Str(Parsed("first_name")), Str(Parsed("job_title")))
              ELSE PromptV2(ResumeText, JdText)
  /\ output = Trim(<<" ", "challenge text", "\n">>)
  /\ timestamp = 0
  /\ uniqueRepoName = Undefined
  /\ repoUrl = Undefined
  /\ remote = NoRemote
  /\ readme = Undefined
  /\ configCalls = 0
  /\ commitAttempts = 0
  /\ firstCommitError = Undefined
  /\ peer = NoPeer

NameTimestamps == {7, 12}

NameNext == \E now \in NameTimestamps : CallInitializeGitRepo(now)

SpecName == NameInit /\ [][NameNext]_vars

\* --------------------------------------- extraction without terminal events
\* parseMultipart on a body busboy never finishes (no finish, close or end):
\* parts and errors arrive, a part can hit the size limit, and the safety
\* timer is the only caller of finalize
ExtractInit ==
  /\ handler \in Handlers
  /\ method = "POST"
  /\ contentType = <<"multipart/form-data", "; boundary=", "X">>
  /\ pc = "awaitParse"
  /\ response = NoResponse
  /\ sent = 0
  /\ axiosCalls = 0
  /\ gitCalls = 0
  /\ completion = NoCompletion
  /\ resumeBuffer = UndefinedValue
  /\ jdBuffer = UndefinedValue
  /\ fields = <<>>
  /\ finished = FALSE
  /\ encounteredUnexpectedEnd = FALSE
  /\ streams = {}
  /\ filesSeen = 0
  /\ truncatedParts = {}
  /\ busboy = "open"
  /\ timerPending = TRUE
  /\ parseResult = Pending
  /\ prompt = Undefined
  /\ output = Undefined
  /\ timestamp = 0
  /\ uniqueRepoName = Undefined
  /\ repoUrl = Undefined
  /\ remote = NoRemote
  /\ readme = Undefined
  /\ configCalls = 0
  /\ commitAttempts = 0
  /\ firstCommitError = Undefined
  /\ peer = NoPeer

ExtractNext ==
  \/ \E f \in FileFieldNames : FileStart(f)
  \/ \E file \in streams, d \in Chunks : FileData(file, d)
  \/ \E file \in streams : FileLimit(file)
  \/ \E file \in streams : FileEnd(file)
  \/ \E f \in FieldNames : Field(f, FieldValue(f))
  \/ \E msg \in BusboyErrorMessages : BusboyError(msg)
  \/ SafetyTimer

\* the timer is armed by setTimeout and the event loop runs it
SpecExtract == ExtractInit /\ [][ExtractNext]_vars /\ WF_vars(SafetyTimer)

\* ------------------------------------------------------ the prompt builder
\* the prompt as a function of its inputs: the template literal evaluated on
\* every kind of file text and metadata a valid request carries
ResumeBodies ==
  { <<120>>,
    \* "# Coding Challenge\nx"
    <<35, 32, 67, 111, 100, 105, 110, 103, 32, 67, 104, 97, 108, 108, 101, 110, 103, 101, 10, 120>>,
    \* "x ## Requirements"
    <<120, 32, 35, 35, 32, 82, 101, 113, 117, 105, 114, 101, 109, 101, 110, 116, 115>> }
JdBodies ==
  { <<120>>,
    \* "## Requirements"
    <<35, 35, 32, 82, 101, 113, 117, 105, 114, 101, 109, 101, 110, 116, 115>> }
PromptFieldValue(f) ==
  CASE f = "first_name" -> <<"A","n","n">>
    [] f = "job_title" -> <<"Q","A"," "," ","L","e","a","d">>
    [] OTHER -> <<"s","e","n","i","o","r">>
PromptForms ==
  {[f \in names |-> PromptFieldValue(f)] :
     names \in SUBSET {"first_name", "job_title", "difficulty"}}

\* the handler after its validation: both files read and non-blank
PromptInit ==
  /\ handler \in Handlers
  /\ method = "POST"
  /\ contentType = <<"multipart/form-data", "; boundary=", "X">>
  /\ pc = "validated"
  /\ response = NoResponse
  /\ sent = 0
  /\ axiosCalls = 0
  /\ gitCalls = 0
  /\ completion = NoCompletion
  /\ \E rb \in ResumeBodies : resumeBuffer = BufferOf(rb)
  /\ \E jb \in JdBodies : jdBuffer = BufferOf(jb)
  /\ fields \in PromptForms
  /\ finished = TRUE
  /\ encounteredUnexpectedEnd = FALSE
  /\ streams = {}
  /\ filesSeen = 2
  /\ truncatedParts = {}
  /\ busboy = "closed"
  /\ timerPending = TRUE
  /\ parseResult = [settled |-> TRUE,
                    value |-> Spread([resumeBuffer |-> resumeBuffer,
                                      jdBuffer |-> jdBuffer,
                                      rawError |-> UndefinedValue])]
  /\ prompt = Undefined
  /\ output = Undefined
  /\ timestamp = 0
  /\ uniqueRepoName = Undefined
  /\ repoUrl = Undefined
  /\ remote = NoRemote
  /\ readme = Undefined
  /\ configCalls = 0
  /\ commitAttempts = 0
  /\ firstCommitError = Undefined
  /\ peer = NoPeer

PromptNext == BuildPrompt

SpecPrompt == PromptInit /\ [][PromptNext]_vars

\* ------------------------------------------- two invocations in one instance
\* the instance serves a second request while the first is in progress: both
\* have their completion and call initializeGitRepo; Date.now() never goes
\* back but can return the same millisecond twice; the hosting account holds
\* one repository per name
TwoTimestamps == {7, 8}
PeerLastNames == {Undefined, <<"O"," ","B","r","i","e","n">>}
PeerJobTitles == {Undefined, <<"Q","A"," "," ","L","e","a","d">>}
TwoForms ==
  {f \in MetadataForms :
     /\ "last_name" \in DOMAIN f => f["last_name"] \in PeerLastNames
     /\ "job_title" \in DOMAIN f => f["job_title"] \in PeerJobTitles}

TwoInit ==
  /\ handler \in Handlers
  /\ method = "POST"
  /\ contentType = <<"multipart/form-data", "; boundary=", "X">>
  /\ pc = "completed"
  /\ response = NoResponse
  /\ sent = 0
  /\ axiosCalls = 1
  /\ gitCalls = 0
  /\ completion = [settled |-> TRUE, ok |-> TRUE,
                   content |-> <<" ", "challenge text", "\n">>]
  /\ resumeBuffer = BufferOf(<<120>>)
  /\ jdBuffer = BufferOf(<<120>>)
  /\ fields \in TwoForms
  /\ finished = TRUE
  /\ encounteredUnexpectedEnd = FALSE
  /\ streams = {}
  /\ filesSeen = 2
  /\ truncatedParts = {}
  /\ busboy = "closed"
  /\ timerPending = TRUE
  /\ parseResult = [settled |-> TRUE,
                    value |-> Spread([resumeBuffer |-> BufferOf(<<120>>),
                                      jdBuffer |-> BufferOf(<<120>>),
                                      rawError |-> UndefinedValue])]
  /\ prompt = IF handler = "V1"
              THEN PromptV1(ResumeText, JdText, Str(Parsed("difficulty")),
                            Str(Parsed("first_name")), Str(Parsed("job_title")))
              ELSE PromptV2(ResumeText, JdText)
  /\ output = Trim(<<" ", "challenge text", "\n">>)
  /\ timestamp = 0
  /\ uniqueRepoName = Undefined
  /\ repoUrl = Undefined
  /\ remote = NoRemote
  /\ readme = Undefined
  /\ configCalls = 0
  /\ commitAttempts = 0
  /\ firstCommitError = Undefined
  /\ \E l \in PeerLastNames, j \in PeerJobTitles :
       peer = [pc |-> "completed", last_name |-> l, job_title |-> j, timestamp |-> 0,
               uniqueRepoName |-> Undefined]

\* createForAuthenticatedUser is refused when the account has the name already
NameTakenByPeer == peer.pc = "created" /\ peer.uniqueRepoName = uniqueRepoName
NameTakenByFirst == remote.created /\ remote.name = peer.uniqueRepoName

\* the first invocation calls initializeGitRepo
TwoCall(now) ==
  /\ peer.pc # "completed" => now >= peer.timestamp
  /\ CallInitializeGitRepo(now)

\* the first invocation's createForAuthenticatedUser settles
TwoCreate == CreateRepo(~NameTakenByPeer)

\* the other invocation calls initializeGitRepo
PeerCall(now) ==
  /\ peer.pc = "completed"
  /\ pc # "completed" => now >= timestamp
  /\ peer' = [peer EXCEPT !.pc = "awaitCreate",
                          !.timestamp = now,
                          !.uniqueRepoName = UniqueRepoName(now, peer.last_name, peer.job_title)]
  /\ UNCHANGED <<handler, method, contentType, httpVars, parseVars, gitVars>>

\* the other invocation's createForAuthenticatedUser settles
PeerCreate ==
  /\ peer.pc = "awaitCreate"
  /\ peer' = [peer EXCEPT !.pc = IF NameTakenByFirst THEN "failed" ELSE "created"]
  /\ UNCHANGED <<handler, method, contentType, httpVars, parseVars, gitVars>>

TwoNext ==
  \/ \E now \in TwoTimestamps : TwoCall(now)
  \/ TwoCreate
  \/ \E now \in TwoTimestamps : PeerCall(now)
  \/ PeerCreate

SpecTwo == TwoInit /\ [][TwoNext]_vars

\* ------------------------------------------------- after a stream error
\* the invocation from the moment busboy has emitted an error event: each
\* file part has either ended before the error or not arrived, the listener
\* has looked at the message, and finalize has not run yet
ErrorInit ==
  /\ handler \in Handlers
  /\ method = "POST"
  /\ contentType = <<"multipart/form-data", "; boundary=", "X">>
  /\ pc = "awaitParse"
  /\ response = NoResponse
  /\ sent = 0
  /\ axiosCalls = 0
  /\ gitCalls = 0
  /\ completion = NoCompletion
  /\ resumeBuffer \in {UndefinedValue, BufferOf(<<120>>)}
  /\ jdBuffer \in {UndefinedValue, BufferOf(<<120>>)}
  /\ fields = <<>>
  /\ finished = FALSE
  /\ \E msg \in BusboyErrorMessages :
       encounteredUnexpectedEnd = Includes(msg, UnexpectedEndOfForm)
  /\ streams = {}
  /\ filesSeen = (IF resumeBuffer = UndefinedValue THEN 0 ELSE 1)
                 + (IF jdBuffer = UndefinedValue THEN 0 ELSE 1)
  /\ truncatedParts = {}
  /\ busboy = "open"
  /\ timerPending = TRUE
  /\ parseResult = Pending
  /\ prompt = Undefined
  /\ output = Undefined
  /\ timestamp = 0
  /\ uniqueRepoName = Undefined
  /\ repoUrl = Undefined
  /\ remote = NoRemote
  /\ readme = Undefined
  /\ configCalls = 0
  /\ commitAttempts = 0
  /\ firstCommitError = Undefined
  /\ peer = NoPeer

ErrorNext ==
  \/ \E f \in FileFieldNames : FileStart(f)
  \/ \E file \in streams, d \in Chunks : FileData(file, d)
  \/ \E file \in streams : FileEnd(file)
  \/ \E f \in FieldNames : Field(f, FieldValue(f))
  \/ \E msg \in BusboyErrorMessages : BusboyError(msg)
  \/ \E ev \in {"finish", "close", "end"} : Terminal(ev)
  \/ SafetyTimer
  \/ RespondMalformed
  \/ RespondMissing
  \/ RespondBlank
  \/ Validated
  \/ BuildPrompt
  \/ CallCompletion
  \/ \E error \in AxiosErrors : CompletionFails(error)
  \/ \E content \in CompletionContents : CompletionSucceeds(content)
  \/ \E t \in Timestamps : CallInitializeGitRepo(t)
  \/ \E ok \in BOOLEAN : CreateRepo(ok)
  \/ \E outcome \in {"ok", "cloneFails", "writeFails"} : CloneRepo(outcome)
  \/ \E ok \in BOOLEAN : ConfigName(ok)
  \/ \E ok \in BOOLEAN : ConfigEmail(ok)
  \/ \E ok \in BOOLEAN : Checkout(ok)
  \/ \E ok \in BOOLEAN : Add(ok)
  \/ \E ok \in BOOLEAN, msg \in GitErrorMessages : Commit(ok, msg)
  \/ \E ok \in BOOLEAN : RetryConfigName(ok)
  \/ \E ok \in BOOLEAN : RetryConfigEmail(ok)
  \/ \E ok \in BOOLEAN, msg \in GitErrorMessages : RetryCommit(ok, msg)
  \/ \E ok \in BOOLEAN : Push(ok)
  \/ RespondSuccess

SpecStreamError == ErrorInit /\ [][ErrorNext]_vars

\* ------------------------------------------------------ pipeline stages
StageOrder ==
  <<"Received", "Extracted", "Validated", "PromptBuilt", "Completed", "Provisioned",
    "Responded">>

\* the stage of the pipeline the invocation is in
Stage ==
  CASE pc = "start" -> "Received"
    [] pc = "awaitParse" -> IF parseResult.settled THEN "Extracted" ELSE "Received"
    [] pc = "validated" -> "Validated"
    [] pc \in {"promptBuilt", "awaitAxios"} -> "PromptBuilt"
    [] pc = "provisioned" -> "Provisioned"
    [] pc = "done" -> IF response.status = 200 THEN "Responded"
                      ELSE IF response.status = 204 THEN "Preflight"
                      ELSE "Failed"
    [] OTHER -> "Completed"

\* ---------------------------------------------------------------- claims
Answered == pc = "done"
Usable(v) == v.type # "undefined" /\ Trim(ToText(v)) # <<>>
CompletionError == completion.settled /\ ~completion.ok
UpstreamStatus(st) ==
  CompletionError /\ completion.error.hasResponse /\ completion.error.status = st
MatchesIdentityUnknown(m) == Includes(ToLowerCase(m), IdentityUnknown)
Defined(v) == v # Absent /\ v # Undefined

\* C1: when the extractor result lacks the resume or the job description
\* buffer, or one of them decodes to text that is blank after trimming, the
\* answer is 400 and neither the completion request nor initializeGitRepo is
\* ever started.
C1_MissingFilesRejected ==
  (parseResult.settled
     /\ (~Usable(Parsed("resumeBuffer")) \/ ~Usable(Parsed("jdBuffer"))))
  => /\ axiosCalls = 0
     /\ gitCalls = 0
     /\ ~remote.created
     /\ Answered => response.status = 400

C1_Witness ==
  /\ Answered
  /\ parseResult.settled
  /\ Parsed("resumeBuffer") = BufferOf(<<120>>)
  /\ Parsed("jdBuffer") = BufferOf(<<32>>)
  /\ response.status = 400

\* C2 as stated: every request whose method is not POST is answered 405.
C2_Original ==
  (Answered /\ method # "POST") => response.status = 405

\* C2 amended: a request whose method is neither POST nor OPTIONS is answered
\* 405 and a POST whose content type lacks multipart/form-data is answered 400;
\* in both cases parseMultipart, the completion request and initializeGitRepo
\* never start.
C2_FailFast ==
  LET badMethod == method \notin {"POST", "OPTIONS"}
      badType == method = "POST"
                 /\ (contentType = Undefined \/ ~Includes(contentType, MULTIPART))
  IN  (badMethod \/ badType)
      => /\ busboy = "idle" /\ ~timerPending /\ ~parseResult.settled
         /\ axiosCalls = 0 /\ gitCalls = 0
         /\ Answered => response.status = (IF badMethod THEN 405 ELSE 400)

C2_Witness ==
  /\ Answered
  /\ method = "POST"
  /\ contentType = <<"application/json">>
  /\ response.status = 400

\* C3: when the provider answers the completion request with 429, the answer
\* is 429 with an error message containing "Rate limit", and initializeGitRepo
\* is never called: no repository is created.
C3_RateLimited ==
  UpstreamStatus(429)
  => /\ response.status = 429
     /\ Includes(response.error, <<"Rate", " ", "limit">>)
     /\ axiosCalls = 1
     /\ gitCalls = 0
     /\ ~remote.created

C3_Witness == UpstreamStatus(429) /\ Answered

\* C4 as stated: 404 gives 404, 401 gives 401 and every other upstream status
\* gives 503.
C4_Original ==
  /\ UpstreamStatus(404) => response.status = 404
  /\ UpstreamStatus(401) => response.status = 401
  /\ (CompletionError /\ completion.error.hasResponse
        /\ completion.error.status \notin {404, 401})
     => response.status = 503

\* C4 amended: 404 gives 404, 401 gives 401, 429 gives 429 and every other
\* upstream status gives 503 with the error string "OpenAI service error: "
\* followed by the provider's error message or, when the provider's answer
\* has none, by the message of the axios error.
C4_StatusMapping ==
  /\ UpstreamStatus(404) => response.status = 404
  /\ UpstreamStatus(401) => response.status = 401
  /\ UpstreamStatus(429) => response.status = 429
  /\ (CompletionError /\ completion.error.hasResponse
        /\ completion.error.status \notin {404, 401, 429})
     => /\ response.status = 503
        /\ response.error =
             <<"OpenAI service error: ">>
             \o (IF completion.error.dataMessage \notin {Undefined, <<>>}
                 THEN completion.error.dataMessage
                 ELSE completion.error.message)

C4_Witness ==
  /\ UpstreamStatus(500)
  /\ completion.error.dataMessage = UpstreamMessage
  /\ response.status = 503

\* C5 as stated: an axios error that carries no HTTP response is answered 500.
C5_Original ==
  (CompletionError /\ ~completion.error.hasResponse) => response.status = 500

\* C5 amended: an axios error that carries no HTTP response (network error,
\* timeout) is answered 503 with the error string "OpenAI service error: "
\* followed by the message of the axios error.
C5_NoResponseIs503 ==
  (CompletionError /\ ~completion.error.hasResponse)
  => /\ response.status = 503
     /\ response.error = <<"OpenAI service error: ">> \o completion.error.message
     /\ gitCalls = 0

C5_Witness ==
  /\ CompletionError
  /\ ~completion.error.hasResponse
  /\ completion.error.message = <<"timeout of 300000ms exceeded">>
  /\ Answered

AfterCommit == pc \in {"awaitPush", "provisioned", "done"}
FirstCommitFailed == firstCommitError # Undefined

\* C6 as stated: after an identity failure of the first commit the commit is
\* attempted exactly one more time; no other failure is retried; never more
\* than two attempts.
C6_Original ==
  /\ commitAttempts <= 2
  /\ (FirstCommitFailed /\ ~MatchesIdentityUnknown(firstCommitError))
     => commitAttempts = 1
  /\ (FirstCommitFailed /\ MatchesIdentityUnknown(firstCommitError) /\ AfterCommit)
     => commitAttempts = 2

\* C6 amended: after an identity failure of the first commit the identity is
\* set again and, if setting it succeeds, the commit is attempted exactly one
\* more time (then push starts or the retry's error is propagated); if setting
\* it fails, that error is propagated and the commit is not attempted again.
\* A commit that fails for any other reason is never retried, and no execution
\* makes more than two attempts.
C6_RetryAtMostOnce ==
  /\ commitAttempts <= 2
  /\ ~FirstCommitFailed => commitAttempts <= 1
  /\ (FirstCommitFailed /\ ~MatchesIdentityUnknown(firstCommitError))
     => /\ commitAttempts = 1
        /\ Answered /\ response.status = 500 /\ response.details = firstCommitError
  /\ (FirstCommitFailed /\ MatchesIdentityUnknown(firstCommitError) /\ AfterCommit)
     => \/ /\ commitAttempts = 2
           /\ Answered => (response.status = 200
                           \/ (response.status = 500
                               /\ response.details \in GitErrorMessages \cup {<<"push", " failed">>}))
        \/ /\ commitAttempts = 1
           /\ Answered /\ response.status = 500
           /\ response.details = <<"config", " failed">>

C6_Witness ==
  /\ FirstCommitFailed
  /\ MatchesIdentityUnknown(firstCommitError)
  /\ commitAttempts = 2
  /\ pc = "awaitPush"

\* the slug of the naming rule: lower-cased, every run of whitespace replaced
\* by one hyphen
RECURSIVE HyphenateRuns(_)
HyphenateRuns(str) ==
  IF str = <<>> THEN <<>>
  ELSE IF IsWhitespace(Head(str)) THEN <<"-">> \o HyphenateRuns(TrimStart(Tail(str)))
  ELSE <<Head(str)>> \o HyphenateRuns(Tail(str))
Slug(str) == HyphenateRuns(ToLowerCase(str))

NameComputed == pc = "awaitCreate"

\* C7: for a fixed timestamp and supplied last name and job title, the
\* generated repository name is base-timestamp-slug(lastName)-slug(jobTitle),
\* slug lower-casing and replacing every run of whitespace by one hyphen.
C7_NameIsSlugged ==
  (NameComputed /\ handler = "V1" /\ DOMAIN fields = {"last_name", "job_title"})
  => uniqueRepoName =
       <<"oddball-code-challenge-repo">> \o <<"-">> \o Digits(timestamp) \o <<"-">>
       \o Slug(fields["last_name"]) \o <<"-">> \o Slug(fields["job_title"])

\* C8: when last_name or job_title is not passed to initializeGitRepo, the
\* generated name holds no text derived from the missing field: it is made of
\* the base name, the timestamp, hyphens and the slugs of the passed fields.
C8_NothingFromMissingField ==
  (NameComputed /\ (PassedLastName = Undefined \/ PassedJobTitle = Undefined))
  => LET slugOf(v) == IF v = Undefined THEN <<>> ELSE Slug(v)
         parts == <<"oddball-code-challenge-repo">> \o <<"-">> \o Digits(timestamp)
                  \o slugOf(PassedLastName) \o slugOf(PassedJobTitle)
     IN  \A i \in DOMAIN uniqueRepoName :
           \E j \in DOMAIN parts : uniqueRepoName[i] = parts[j]

\* C9: every answer of the pipeline is either a success body with both
\* challengeLink and githubRepo defined, or a JSON error body with an error
\* string and neither URL.
C9_BothUrlsOrError ==
  (sent > 0 /\ ~(handler = "V1" /\ method = "OPTIONS"))
  => \/ /\ response.status = 200
        /\ Defined(response.challengeLink)
        /\ Defined(response.githubRepo)
        /\ response.error = Absent
     \/ /\ response.status # 200
        /\ response.kind = "json"
        /\ Defined(response.error)
        /\ response.challengeLink = Absent
        /\ response.githubRepo = Absent

C9_Witness ==
  /\ Answered
  /\ response.status = 200
  /\ remote.pushed

C10_StageStep ==
  \/ Stage' = Stage
  \/ \E i \in 1..(Len(StageOrder) - 1) : Stage = StageOrder[i] /\ Stage' = StageOrder[i + 1]
  \/ Stage \notin {"Responded", "Failed"} /\ Stage' = "Failed"
  \/ handler = "V1" /\ method = "OPTIONS" /\ Stage = "Received" /\ Stage' = "Preflight"

C12_UnexpectedEndReported ==
  (encounteredUnexpectedEnd /\ parseResult.settled)
  => /\ Parsed("rawError") = StringOf(<<"UNEXPECTED_END">>)
     /\ axiosCalls = 0 /\ gitCalls = 0
     /\ Answered => response.status = 400

Finalizing == ~finished /\ finished'
FieldsResolved ==
  \A f \in DOMAIN fields : Get(parseResult'.value, f) = StringOf(fields[f])
FileResolved(key, buf) == buf.type = "buffer" => Get(parseResult'.value, key) = buf

ResultKey(part) == IF part = "resume" THEN "resumeBuffer" ELSE "jdBuffer"

\* C14: a file part cut at the 10 MiB ceiling is not silently accepted: the
\* value parseMultipart resolves with either omits that file or carries a
\* key, beside the buffers, rawError and the form's scalar fields, that marks
\* the truncation.
C14_TruncationIndicated ==
  [][Finalizing =>
       \A part \in truncatedParts :
         \/ Get(parseResult'.value, ResultKey(part)).type = "undefined"
         \/ ~(DOMAIN parseResult'.value
                \subseteq {"resumeBuffer", "jdBuffer", "rawError"} \cup DOMAIN fields)]_vars

\* number of places where sub occurs in s
Occurrences(s, sub) ==
  Cardinality({i \in 1..(Len(s) - Len(sub) + 1) : SubSeq(s, i, i + Len(sub) - 1) = sub})
PromptBuilt == pc = "promptBuilt"

Supplied(f) == f \in DOMAIN fields

\* C16: the prompt of generateCodingChallenge holds the first name only when
\* first_name was supplied and the job title only when job_title was
\* supplied; for an absent field no value and no placeholder (such as the text
\* "undefined") is interpolated; without difficulty the prompt says
\* "intermediate".
C16_ConditionalInterpolation ==
  (PromptBuilt /\ handler = "V1")
  => /\ Supplied("first_name") => Includes(prompt, fields["first_name"])
     /\ Supplied("job_title") => Includes(prompt, fields["job_title"])
     /\ ~Supplied("difficulty") => Includes(prompt, <<"intermediate">>)
     /\ (~Supplied("first_name") \/ ~Supplied("job_title"))
          => ~Includes(prompt, <<"undefined">>)

FirstCloning == pc = "awaitClone"
PeerCloning == peer.pc = "created"
SameRequest == peer.last_name = PassedLastName /\ peer.job_title = PassedJobTitle

\* C17: two invocations in progress in the same instance never use the same
\* local clone directory: whenever both have their repository and their
\* path join(os.tmpdir(), uniqueRepoName), the two paths differ.
C17_DistinctCloneDirectories ==
  (FirstCloning /\ PeerCloning)
  => LocalPath(uniqueRepoName) # LocalPath(peer.uniqueRepoName)

C17_Witness ==
  /\ FirstCloning
  /\ PeerCloning
  /\ SameRequest
  /\ timestamp = 7
  /\ peer.timestamp = 8

\* C18: two identical requests produce two distinct repositories: once both
\* have computed their repository name the names differ, and neither create
\* is refused because of the other.
C18_DistinctRepositories ==
  (SameRequest /\ pc # "completed" /\ peer.pc # "completed")
  => /\ uniqueRepoName # peer.uniqueRepoName
     /\ peer.pc # "failed"
     /\ pc # "done"

\* C19: once the response has been sent nothing the invocation started is
\* outstanding: its safety timer is not armed and the parser it set up emits
\* no further event.
C19_NothingOutstanding ==
  Answered => (~timerPending /\ busboy # "open")

\* C20: on a successful invocation the githubRepo URL of the response is the
\* URL of the repository created in that invocation, and the README.md pushed
\* to it is "# ", the generated repository name, a blank line, and the
\* trimmed completion text.
C20_ResponseMatchesRepository ==
  (Answered /\ response.status = 200)
  => /\ remote.created /\ remote.pushed
     /\ remote.name = uniqueRepoName
     /\ response.githubRepo = <<"https://github.com/">> \o GithubUsername \o <<"/">> \o remote.name
     /\ remote.readme = <<"#", " ">> \o uniqueRepoName \o <<"\n", "\n">>
                        \o Trim(completion.content)

C20_Witness ==
  /\ Answered
  /\ response.status = 200
  /\ remote.readme = <<"#", " ">> \o uniqueRepoName \o <<"\n", "\n", "challenge text">>

\* the positions of initializeGitRepo, in the order of its statements
ProvisioningSteps ==
  <<"awaitCreate", "awaitClone", "awaitConfigName", "awaitConfigEmail", "awaitCheckout",
    "awaitAdd", "awaitCommit", "awaitRetryConfigName", "awaitRetryConfigEmail",
    "awaitRetryCommit", "awaitPush", "provisioned">>
Provisioning(p) == \E i \in DOMAIN ProvisioningSteps : ProvisioningSteps[i] = p
StepRank(p) == CHOOSE i \in DOMAIN ProvisioningSteps : ProvisioningSteps[i] = p
Reached(p) == Provisioning(pc) /\ StepRank(pc) >= StepRank(p)

C21_Step ==
  /\ (Provisioning(pc) /\ pc' # pc)
     => \/ Provisioning(pc') /\ StepRank(pc') > StepRank(pc)
        \/ /\ pc' = "done"
           /\ remote' = remote
           /\ IF pc = "provisioned" THEN response'.status = 200
                                    ELSE response'.status = 500
  /\ remote.created => (remote'.created /\ remote'.name = remote.name)
  /\ remote.pushed => remote'.pushed
  /\ pc = "done" => pc' = "done"

\* C21: the provisioning steps run in the order create, clone, write README,
\* configure identity, checkout, stage, commit, push; a failure of create,
\* clone, write, checkout, stage, commit (after its retry) or push ends the
\* invocation with an error answer and no later step; no step removes the
\* repository already created; a 200 answer is sent only after push succeeded.
C21_OrderedAbortNoCleanup ==
  /\ [][C21_Step]_vars
  /\ [](Reached("awaitClone") => (remote.created /\ remote.name = uniqueRepoName))
  /\ [](Reached("awaitConfigName") => readme # Undefined)
  /\ []((Reached("awaitCheckout") /\ ~Reached("awaitAdd")) => commitAttempts = 0)
  /\ [](Reached("awaitCommit") => commitAttempts >= 1)
  /\ [](remote.pushed => (remote.created /\ readme # Undefined /\ commitAttempts >= 1))
  /\ []((Answered /\ response.status = 200) => remote.pushed)
  /\ []((Answered /\ gitCalls = 1 /\ ~remote.pushed) => response.status = 500)

C21_Witness ==
  /\ Answered
  /\ response.status = 500
  /\ response.details = <<"push", " failed">>
  /\ remote.created
  /\ ~remote.pushed
  /\ commitAttempts = 2

\* the messages the step the invocation is suspended at can fail with
StepFailures ==
  CASE pc = "awaitCreate" ->
         { <<"create", " failed">>, <<"Bad credentials">>,
           <<"You have exceeded a secondary rate limit">> }
    [] pc = "awaitClone" -> { <<"clone", " failed">>, <<"write", " failed">> }
    [] pc = "awaitCheckout" -> { <<"checkout", " failed">> }
    [] pc = "awaitAdd" -> { <<"add", " failed">> }
    [] pc = "awaitCommit" -> { firstCommitError' }
    [] pc \in {"awaitRetryConfigName", "awaitRetryConfigEmail"} -> { <<"config", " failed">> }
    [] pc = "awaitRetryCommit" -> GitErrorMessages
    [] pc = "awaitPush" -> { <<"push", " failed">> }
    [] OTHER -> {}

C22_Step ==
  (Provisioning(pc) /\ pc # "provisioned" /\ pc' = "done")
  => /\ response'.status = 500
     /\ response'.details \in StepFailures

\* C22: every failure raised by initializeGitRepo (create, clone, README
\* write, commit, push, a rejection by the hosting API included) is answered
\* 500 with the underlying error message as details; 401, 404, 429 and 503
\* are answered only when the completion request itself failed.
C22_ProvisioningFailureIs500 ==
  /\ [][C22_Step]_vars
  /\ []((Answered /\ gitCalls = 1 /\ response.status # 200)
          => (response.status = 500 /\ Defined(response.details)))
  /\ [](response.status \in {401, 404, 429, 503} => (CompletionError /\ gitCalls = 0))

C22_Witness ==
  /\ Answered
  /\ gitCalls = 1
  /\ response.status = 500
  /\ response.details = <<"Bad credentials">>
  /\ ~remote.created

\* C23: an invocation issues at most one request to the completion provider;
\* when that request fails it is not issued again, initializeGitRepo is never
\* called and the invocation has ended with an error answer.
C23_SingleCompletionRequest ==
  /\ axiosCalls <= 1
  /\ completion.settled => axiosCalls = 1
  /\ CompletionError
     => /\ axiosCalls = 1
        /\ gitCalls = 0
        /\ ~remote.created
        /\ Answered
        /\ response.status \in {401, 404, 429, 503}
        /\ Defined(response.error)

C23_Witness ==
  /\ UpstreamStatus(401)
  /\ Answered
  /\ axiosCalls = 1
  /\ gitCalls = 0
  /\ response.status = 401

BlankCompletion ==
  /\ completion.settled
  /\ completion.ok
  /\ completion.content # Undefined
  /\ Trim(completion.content) = <<>>

\* C24: the challenge text handed to initializeGitRepo is never empty: when
\* the first choice of the completion is empty or only whitespace,
\* initializeGitRepo is not called and no repository is created.
C24_ChallengeNeverEmpty ==
  /\ gitCalls > 0 => output # <<>>
  /\ BlankCompletion => (gitCalls = 0 /\ ~remote.created)

\* C25: every stream error the multipart parser reports leads to an error
\* answer: an invocation in which busboy has emitted an error event, whatever
\* its message, does not end with a 200 answer.
C25_StreamErrorRejected ==
  Answered => response.status # 200

C26_Step ==
  /\ (pc \in {"awaitConfigName", "awaitConfigEmail"} /\ pc' # pc)
     => /\ pc' \in {"awaitConfigEmail", "awaitCheckout"}
        /\ sent' = sent
  /\ (pc = "awaitCommit" /\ pc' # pc /\ firstCommitError' # Undefined
        /\ MatchesIdentityUnknown(firstCommitError'))
     => /\ pc' = "awaitRetryConfigName"
        /\ configCalls' = configCalls + 1
        /\ commitAttempts' = commitAttempts
  /\ (pc' = "awaitRetryCommit" /\ pc # pc')
     => /\ pc = "awaitRetryConfigEmail"
        /\ commitAttempts' = 2

\* C26: a failure while setting the local git identity before the commit
\* does not abort provisioning: checkout, staging and commit follow; and when
\* the commit then fails because the identity is unknown, the identity is set
\* again (both addConfig calls) before the one retry of the commit.
C26_IdentityBestEffort ==
  /\ [][C26_Step]_vars
  /\ []((Reached("awaitCheckout") /\ ~FirstCommitFailed) => configCalls \in {1, 2})
  /\ [](commitAttempts = 2
          => (FirstCommitFailed /\ MatchesIdentityUnknown(firstCommitError)
              /\ configCalls \in {3, 4}))
  /\ []((Answered /\ response.details = <<"config", " failed">>)
          => (FirstCommitFailed /\ commitAttempts = 1))

C26_Witness ==
  /\ pc = "awaitPush"
  /\ configCalls = 3
  /\ commitAttempts = 2
  /\ FirstCommitFailed

\* C27: a job title submitted under the field name job_desc_text is treated
\* like one submitted as job_title: it is interpolated into the prompt and
\* its slug appears in the repository name.
C27_JobDescTextIsJobTitle ==
  (NameComputed /\ handler = "V1" /\ Supplied("job_desc_text") /\ ~Supplied("job_title"))
  => /\ Includes(prompt, fields["job_desc_text"])
     /\ Includes(uniqueRepoName, Slug(fields["job_desc_text"]))

C28_Step ==
  /\ parseResult.settled => parseResult' = parseResult
  /\ finished => finished'
  /\ (~parseResult.settled /\ parseResult'.settled)
     => /\ pc \in {"start", "awaitParse"}
        /\ "rawError" \in DOMAIN parseResult'.value

\* C28: the promise of parseMultipart settles exactly once and only by
\* resolving: the first of finish, close, end, the safety timer or a setup
\* exception fixes the value, and no later event (a further terminal event, a
\* late error, a late file end or field) changes the value or resolves again.
C28_SettlesOnce ==
  /\ [][C28_Step]_vars
  /\ [](finished => parseResult.settled)
  /\ []((pc \notin {"start", "awaitParse", "done"}) => parseResult.settled)

C28_Witness ==
  /\ parseResult.settled
  /\ ~timerPending
  /\ busboy = "open"
  /\ encounteredUnexpectedEnd
  /\ "last_name" \in DOMAIN fields
  /\ Get(parseResult.value, "last_name") = UndefinedValue
  /\ Get(parseResult.value, "rawError") = UndefinedValue

Receiving(part) == \E file \in streams : file.fieldname = part
EndedParts == filesSeen - Cardinality(streams)
StoredBuffers ==
  (IF resumeBuffer.type = "buffer" THEN 1 ELSE 0)
  + (IF jdBuffer.type = "buffer" THEN 1 ELSE 0)
ResolvedKey(key, stored) ==
  Get(parseResult'.value, key)
    = (IF key \in DOMAIN fields THEN StringOf(fields[key]) ELSE stored)

\* C29 as stated: when finalization happens while the resume or the
\* job_description part is still being received, that part is absent from the
\* result, and a result that lacks a file is answered 400 "Both resume and job
\* description files are required."
C29_Original ==
  /\ [][Finalizing =>
          \A part \in FileFieldNames :
            Receiving(part)
              => Get(parseResult'.value, ResultKey(part)).type = "undefined"]_vars
  /\ []((parseResult.settled /\ Answered
           /\ (Get(parseResult.value, "resumeBuffer").type = "undefined"
               \/ Get(parseResult.value, "jdBuffer").type = "undefined"))
          => response.error = <<"Both resume and job description files are required.">>)

\* C29 amended: only the data of a stream that has ended is stored, and the
\* result holds under resumeBuffer and jdBuffer what was stored at
\* finalization (or the scalar field of that name, when the form has one):
\* the data of a part still being received is not in the result.  A result
\* that lacks a file is answered 400 without a completion request, with the
\* malformed-multipart message when rawError is UNEXPECTED_END and with the
\* files-required message otherwise.
C29_NoPartialData ==
  /\ [](StoredBuffers <= EndedParts)
  /\ [][Finalizing => /\ ResolvedKey("resumeBuffer", resumeBuffer)
                      /\ ResolvedKey("jdBuffer", jdBuffer)]_vars
  /\ []((parseResult.settled
           /\ (Falsy(Get(parseResult.value, "resumeBuffer"))
               \/ Falsy(Get(parseResult.value, "jdBuffer"))))
          => /\ axiosCalls = 0
             /\ Answered
                  => /\ response.status = 400
                     /\ response.error =
                          (IF Get(parseResult.value, "rawError") = StringOf(<<"UNEXPECTED_END">>)
                           THEN MalformedMultipart
                           ELSE FilesRequired))

C29_Witness ==
  /\ parseResult.settled
  /\ timerPending
  /\ busboy = "closed"
  /\ \E file \in streams : file.fieldname = "job_description" /\ file.buffers = <<(<<120>>)>>
  /\ Get(parseResult.value, "resumeBuffer") = BufferOf(<<120>>)
  /\ Get(parseResult.value, "jdBuffer") = UndefinedValue
  /\ Answered
  /\ response.error = FilesRequired

RawError == Get(parseResult.value, "rawError")

\* C30: the malformed-body check comes before the missing-file check and only
\* rawError = UNEXPECTED_END selects it: with that value the answer is the
\* malformed-multipart 400 even when both files were received; a parser setup
\* failure (any other rawError, no buffers) is answered with the
\* missing-files 400; in neither case is the completion provider called.
C30_MalformedFirst ==
  parseResult.settled
  => /\ RawError = StringOf(<<"UNEXPECTED_END">>)
          => /\ axiosCalls = 0
             /\ Answered => (response.status = 400 /\ response.error = MalformedMultipart)
     /\ (Answered /\ response.error = MalformedMultipart)
          => RawError = StringOf(<<"UNEXPECTED_END">>)
     /\ (RawError.type = "string" /\ RawError # StringOf(<<"UNEXPECTED_END">>))
          => /\ Get(parseResult.value, "resumeBuffer") = UndefinedValue
             /\ Get(parseResult.value, "jdBuffer") = UndefinedValue
             /\ axiosCalls = 0
             /\ Answered => (response.status = 400 /\ response.error = FilesRequired)

C30_Witness ==
  /\ parseResult.settled
  /\ RawError = StringOf(<<"UNEXPECTED_END">>)
  /\ Get(parseResult.value, "resumeBuffer") = BufferOf(<<120>>)
  /\ Get(parseResult.value, "jdBuffer") = BufferOf(<<120>>)
  /\ Answered
  /\ response.error = MalformedMultipart

====
